---- MODULE Spec2Model ----
(***************************************************************************)
(* Model of the UserProfile component (src/components/UserProfile).        *)
(*                                                                         *)
(* Text is modelled as tuples of one-character strings, so that length,    *)
(* lower-casing, trimming and the e-mail syntax test are computed.  The    *)
(* JavaScript value undefined is the one-element tuple Undef, which is no  *)
(* text (its element is not a single character).  Preview handles (object  *)
(* URLs) are the numbers 1..created; 0 stands for null.                    *)
(***************************************************************************)
EXTENDS Integers, Sequences, FiniteSets, TLC

\* ------------------------------------------------------------------ bounds
MaxHandles == 3
MaxOtherCalls == 1
MaxItems == 2

\* ------------------------------------------------------- JavaScript values
Undef == <<"undefined">>
NoURL == 0
NoFile == "none"

Falsy(v) == v = Undef \/ v = <<>>

Or(a, b) == IF Falsy(a) THEN b ELSE a

Range(s) == {s[i] : i \in 1..Len(s)}

\* ------------------------------------------------------------ sample texts
EmailA == <<"a", "@", "b", ".", "c", "o">>
EmailB == <<"c", "@", "d", ".", "i", "o">>
NameAbc == <<"a", "b", "c">>
NameAb == <<"a", "b">>
PwNew == <<"n", "e", "w", "p", "a", "s", "s", "1">>
ImgOld == <<"o", ".", "p", "n", "g">>
ImgNew == <<"n", ".", "p", "n", "g">>

\* what the user types into the inputs
Emails == {EmailB}
Names == {NameAb}
Passwords == {PwNew}
UploadUrls == {ImgNew}

Id1 == [t |-> "str", s |-> <<"1">>]
IdNum1 == [t |-> "num", s |-> <<"1">>]
Id2 == [t |-> "str", s |-> <<"2">>]
IdEmpty == [t |-> "str", s |-> <<>>]
IdZero == [t |-> "num", s |-> <<"0">>]
IdUndef == [t |-> "undef", s |-> <<>>]

\* files the picker can deliver, with their MIME types
Files == {"f1", "f2"}

MimeOf(f) == IF f = "f1" THEN "image/png" ELSE "image/gif"

\* ------------------------------------------------------------ the schema
IsEmail(s) ==
    \E i \in 2..Len(s) :
        /\ s[i] = "@"
        /\ \A k \in 1..Len(s) : (s[k] = "@" => k = i) /\ s[k] # " "
        /\ s[1] # "."
        /\ \E j \in (i + 2)..(Len(s) - 2) :
              /\ s[j] = "."
              /\ \A k \in (j + 1)..Len(s) : s[k] # "."

MinLen(s, n) == Len(s) >= n

\* the set of fields the resolver reports an error for
profileFormSchema(data) ==
    (IF IsEmail(data.email) THEN {} ELSE {"email"})
    \cup (IF MinLen(data.userName, 3) THEN {} ELSE {"userName"})
    \cup (IF MinLen(data.password, 8) THEN {} ELSE {"password"})

\* ------------------------------------------------------------- accounts
NoUser == [_id |-> [t |-> "null", s |-> <<>>], email |-> Undef,
           userName |-> Undef, password |-> Undef, imgURL |-> Undef]

UserA == [_id |-> Id1, email |-> EmailA, userName |-> NameAbc,
          password |-> Undef, imgURL |-> ImgOld]

UserB == [_id |-> IdUndef, email |-> EmailB, userName |-> Undef,
          password |-> Undef, imgURL |-> Undef]

\* the values the authentication provider can deliver as currentUser
AuthUsers == {UserA, UserB}

\* JavaScript truthiness of an identifier value (string, number, undefined)
Truthy(v) ==
    /\ v.t \in {"str", "num"}
    /\ v.s # <<>>
    /\ ~(v.t = "num" /\ v.s = <<"0">>)

NoUpdate == [k \in {} |-> Undef]

VARIABLES
    mounted,        \* the component is mounted
    page,           \* "profile", or where a hard navigation has gone
    currentUser,    \* useAuth().currentUser
    localUser,      \* useState: the in-memory account
    isEditing,      \* useState
    isUploading,    \* useState: the in-flight flag
    selectedImage,  \* useState: the staged file
    tempImageURL,   \* useState: the staged preview handle (0: null)
    form,           \* react-hook-form field values
    errors,         \* react-hook-form formState.errors (field names)
    effDeps,        \* [watchProfileImage, tempImageURL] of the staging effect's last run
    created,        \* number of URL.createObjectURL calls so far
    revoked,        \* log of URL.revokeObjectURL calls
    pcSubmit,       \* the await onSubmit is suspended at
    subUser,        \* localUser captured by the running onSubmit
    subFile,        \* file passed to uploadImage
    subUpdate,      \* updatedUserData of the running onSubmit
    pcDeleteAccount, \* the await handleDeleteAccount is suspended at
    delUserId,      \* id passed to deleteUser
    pcLogout,       \* the await handleLogout is suspended at
    pcDeleteItem,   \* the await handleDeleteItem is suspended at
    delItemId,      \* id passed to deleteItem
    items           \* useUserItems().items

compVars == <<localUser, isEditing, isUploading, selectedImage, tempImageURL>>
formVars == <<form, errors>>
urlVars == <<effDeps, created, revoked>>
submitVars == <<pcSubmit, subUser, subFile, subUpdate>>
otherVars == <<pcDeleteAccount, delUserId, pcLogout, pcDeleteItem, delItemId>>
vars == <<mounted, page, currentUser, compVars, formVars, urlVars, submitVars,
          otherVars, items>>

\* the profile is rendered and reacts to the user (lines 214-215)
Rendered == mounted /\ page = "profile" /\ localUser # NoUser

\* the collaborator calls that are in flight
OtherCalls ==
    (IF pcDeleteAccount = "idle" THEN 0 ELSE 1)
    + (IF pcLogout = "idle" THEN 0 ELSE 1)
    + (IF pcDeleteItem = "idle" THEN 0 ELSE 1)

InFlight ==
    (IF pcSubmit = "idle" THEN {} ELSE {pcSubmit})
    \cup (IF pcDeleteAccount = "idle" THEN {} ELSE {pcDeleteAccount})
    \cup (IF pcLogout = "idle" THEN {} ELSE {pcLogout})
    \cup (IF pcDeleteItem = "idle" THEN {} ELSE {pcDeleteItem})

\* --------------------------------------------------------------- items
TypeLostCap == <<"L", "o", "s", "t", " ">>
TypeFound == <<" ", "F", "O", "U", "N", "D">>

Item(id, owner, userId, itemType) ==
    [_id |-> id, owner |-> owner, userId |-> userId, itemType |-> itemType]

ItemsA == <<Item("i1", Id1, IdUndef, TypeLostCap), Item("i2", Id2, IdUndef, TypeFound)>>

\* -------------------------------------- renderUserItems (lines 219-243)
UpperCase == <<"A", "B", "C", "D", "E", "F", "G", "H", "I", "J", "K", "L", "M",
               "N", "O", "P", "Q", "R", "S", "T", "U", "V", "W", "X", "Y", "Z">>
LowerCase == <<"a", "b", "c", "d", "e", "f", "g", "h", "i", "j", "k", "l", "m",
               "n", "o", "p", "q", "r", "s", "t", "u", "v", "w", "x", "y", "z">>

LowerChar(c) ==
    IF \E i \in 1..Len(UpperCase) : UpperCase[i] = c
    THEN LowerCase[CHOOSE i \in 1..Len(UpperCase) : UpperCase[i] = c]
    ELSE c

ToLowerCase(s) == [i \in 1..Len(s) |-> LowerChar(s[i])]

WhiteSpace == {" ", "\t", "\n"}

RECURSIVE TrimStart(_)
TrimStart(s) ==
    IF s # <<>> /\ Head(s) \in WhiteSpace THEN TrimStart(Tail(s)) ELSE s

RECURSIVE TrimEnd(_)
TrimEnd(s) ==
    IF s # <<>> /\ s[Len(s)] \in WhiteSpace
    THEN TrimEnd(SubSeq(s, 1, Len(s) - 1))
    ELSE s

Trim(s) == TrimEnd(TrimStart(s))

\* String(v)
StringOf(v) ==
    CASE v.t = "undef" -> <<"u", "n", "d", "e", "f", "i", "n", "e", "d">>
      [] v.t = "null" -> <<"n", "u", "l", "l">>
      [] OTHER -> v.s

\* a || b on identifier values
OrId(a, b) == IF Truthy(a) THEN a ELSE b

\* mutant: the owner check is dropped
KeepItemAnyOwner(item, uid, typeParam) ==
    Trim(ToLowerCase(Or(item.itemType, <<>>))) = typeParam

\* the callback of items.filter (lines 225-237)
KeepItem(item, uid, typeParam) ==
    LET itemOwner == OrId(item.owner, item.userId)
    IN  IF ~Truthy(itemOwner) \/ ~Truthy(uid) THEN FALSE
        ELSE IF StringOf(itemOwner) # StringOf(uid) THEN FALSE
        ELSE Trim(ToLowerCase(Or(item.itemType, <<>>))) = typeParam

RECURSIVE FilterItems(_, _, _)
FilterItems(its, uid, typeParam) ==
    IF its = <<>> THEN <<>>
    ELSE (IF KeepItem(Head(its), uid, typeParam) THEN <<Head(its)>> ELSE <<>>)
         \o FilterItems(Tail(its), uid, typeParam)

\* ----------------------------------------------------------------- Init
DefaultValues == [email |-> <<>>, userName |-> <<>>, password |-> <<>>,
                  profileImage |-> NoFile]

\* the component's state as useState and useForm construct it (lines 47-71)
InitComponent ==
    /\ currentUser = NoUser
    /\ localUser = NoUser
    /\ isEditing = FALSE
    /\ isUploading = FALSE
    /\ selectedImage = NoFile
    /\ tempImageURL = NoURL
    /\ form = DefaultValues
    /\ errors = {}
    /\ effDeps = <<NoFile, NoURL>>

InitCalls ==
    /\ pcSubmit = "idle"
    /\ subUser = NoUser
    /\ subFile = NoFile
    /\ subUpdate = NoUpdate
    /\ pcDeleteAccount = "idle"
    /\ delUserId = IdUndef
    /\ pcLogout = "idle"
    /\ pcDeleteItem = "idle"
    /\ delItemId = "none"

Init ==
    /\ mounted = TRUE
    /\ page = "profile"
    /\ InitComponent
    /\ created = 0
    /\ revoked = <<>>
    /\ InitCalls
    /\ items = ItemsA

\* An unmounted component has no state any more: its values are those of a
\* fresh instance.
ComponentGone ==
    /\ currentUser' = NoUser
    /\ localUser' = NoUser
    /\ isEditing' = FALSE
    /\ isUploading' = FALSE
    /\ selectedImage' = NoFile
    /\ tempImageURL' = NoURL
    /\ form' = DefaultValues
    /\ errors' = {}
    /\ effDeps' = <<NoFile, NoURL>>

\* A hard navigation (location.href, location.reload) discards the document:
\* the component, the pending continuations and the object URLs with it.
DocumentGone(to) ==
    /\ page' = to
    /\ mounted' = FALSE
    /\ ComponentGone
    /\ created' = 0
    /\ revoked' = <<>>
    /\ pcSubmit' = "idle"
    /\ subUser' = NoUser
    /\ subFile' = NoFile
    /\ subUpdate' = NoUpdate
    /\ pcDeleteAccount' = "idle"
    /\ delUserId' = IdUndef
    /\ pcLogout' = "idle"
    /\ pcDeleteItem' = "idle"
    /\ delItemId' = "none"
    /\ UNCHANGED items

\* ------------------------------------------------- effects (lines 75-94)
\* The authentication provider delivers a new currentUser object and the
\* effect on [currentUser] seeds localUser and the form from it.
CurrentUserEffect(u) ==
    /\ mounted /\ page = "profile"
    /\ currentUser' = u
    /\ IF u # NoUser
       THEN /\ localUser' = u
            /\ form' = [form EXCEPT !.email = u.email,
                                    !.userName = Or(u.userName, <<>>),
                                    !.password = <<>>]
       ELSE UNCHANGED <<localUser, form>>
    /\ UNCHANGED <<mounted, page, isEditing, isUploading, selectedImage,
                   tempImageURL, errors, urlVars, submitVars, otherVars, items>>

\* the cleanup the staging effect's last run returned: it revokes the
\* tempImageURL that run's render saw
CleanupRevokes ==
    IF effDeps[1] # NoFile /\ effDeps[2] # NoURL THEN <<effDeps[2]>> ELSE <<>>

\* The effect on [watchProfileImage, tempImageURL]: runs when a dependency
\* differs from the one of its last run; the previous cleanup runs first.
StagingEffect ==
    /\ mounted /\ page = "profile"
    /\ effDeps # <<form.profileImage, tempImageURL>>
    /\ effDeps' = <<form.profileImage, tempImageURL>>
    /\ revoked' = revoked \o CleanupRevokes
    /\ IF form.profileImage # NoFile
       THEN /\ created < MaxHandles
            /\ selectedImage' = form.profileImage
            /\ created' = created + 1
            /\ tempImageURL' = created + 1
       ELSE UNCHANGED <<selectedImage, created, tempImageURL>>
    /\ UNCHANGED <<mounted, page, currentUser, localUser, isEditing, isUploading,
                   formVars, submitVars, otherVars, items>>

\* React unmounts the component (Back, Upload New Item, the redirect of an
\* unauthenticated user): the effect's cleanup runs one last time.
Unmount ==
    /\ mounted /\ page = "profile"
    /\ mounted' = FALSE
    /\ revoked' = revoked \o CleanupRevokes
    /\ ComponentGone
    /\ UNCHANGED <<page, created, submitVars, otherVars, items>>

\* --------------------------------------------------- the user's inputs
EnterEdit ==
    /\ Rendered /\ ~isEditing
    /\ isEditing' = TRUE
    /\ UNCHANGED <<mounted, page, currentUser, localUser, isUploading,
                   selectedImage, tempImageURL, formVars, urlVars, submitVars,
                   otherVars, items>>

\* typing into a registered input
SetField(field, v) ==
    /\ Rendered /\ isEditing
    /\ form[field] # v
    /\ form' = [form EXCEPT ![field] = v]
    /\ UNCHANGED <<mounted, page, currentUser, compVars, errors, urlVars,
                   submitVars, otherVars, items>>

\* choosing a file in the picker of the profileImage input
SelectFile(f) ==
    /\ Rendered /\ isEditing
    /\ form.profileImage # f
    /\ form' = [form EXCEPT !.profileImage = f]
    /\ UNCHANGED <<mounted, page, currentUser, compVars, errors, urlVars,
                   submitVars, otherVars, items>>

\* ------------------------------------------------ onSubmit (lines 102-141)
\* mutant: the password is kept only when longer than 8 characters
BuildUpdateStrictlyLonger(data) ==
    LET base == [k \in {"email", "userName"} |-> data[k]]
    IN  IF data.password # <<>> /\ Len(data.password) > 8
        THEN base @@ ("password" :> data.password)
        ELSE base

\* the partial update built before the first await (lines 108-115)
BuildUpdate(data) ==
    LET base == [k \in {"email", "userName"} |-> data[k]]
    IN  IF data.password # <<>> /\ Len(data.password) >= 8
        THEN base @@ ("password" :> data.password)
        ELSE base

\* { ...localUser, ...updatedUserData, imgURL: updatedUserData.imgURL || localUser.imgURL }
MergeUser(user, upd) ==
    [k \in DOMAIN user |->
        IF k = "imgURL"
        THEN Or(IF "imgURL" \in DOMAIN upd THEN upd.imgURL ELSE Undef, user.imgURL)
        ELSE IF k \in DOMAIN upd THEN upd[k] ELSE user[k]]

SubmitIdle ==
    /\ pcSubmit' = "idle"
    /\ subUser' = NoUser
    /\ subFile' = NoFile
    /\ subUpdate' = NoUpdate

\* setIsUploading(false) of the finally block; a state update of an
\* unmounted component is dropped
SubmitFinally ==
    /\ SubmitIdle
    /\ isUploading' = IF mounted THEN FALSE ELSE isUploading

\* mutant: onSubmit runs whatever the resolver reports
HandleSubmitUnvalidated ==
    /\ Rendered /\ isEditing /\ ~isUploading
    /\ errors' = profileFormSchema(form)
    /\ IF ~Truthy(localUser._id)
       THEN UNCHANGED <<isUploading, submitVars>>
       ELSE /\ isUploading' = TRUE
            /\ subUser' = localUser
            /\ subUpdate' = BuildUpdate(form)
            /\ subFile' = selectedImage
            /\ pcSubmit' = IF selectedImage # NoFile THEN "uploadImage" ELSE "updateUser"
    /\ UNCHANGED <<mounted, page, currentUser, localUser, isEditing, selectedImage,
                   tempImageURL, form, urlVars, otherVars, items>>

\* mutant: updateUser is issued at once, whether an image is staged or not
HandleSubmitNoUpload ==
    /\ Rendered /\ isEditing /\ ~isUploading
    /\ errors' = profileFormSchema(form)
    /\ IF profileFormSchema(form) # {} \/ ~Truthy(localUser._id)
       THEN UNCHANGED <<isUploading, submitVars>>
       ELSE /\ isUploading' = TRUE
            /\ subUser' = localUser
            /\ subUpdate' = BuildUpdate(form)
            /\ subFile' = selectedImage
            /\ pcSubmit' = "updateUser"
    /\ UNCHANGED <<mounted, page, currentUser, localUser, isEditing, selectedImage,
                   tempImageURL, form, urlVars, otherVars, items>>

\* mutant: the Save button is not disabled while a submit is in flight
HandleSubmitUngated ==
    /\ Rendered /\ isEditing
    /\ errors' = profileFormSchema(form)
    /\ IF profileFormSchema(form) # {} \/ ~Truthy(localUser._id)
       THEN UNCHANGED <<isUploading, submitVars>>
       ELSE /\ isUploading' = TRUE
            /\ subUser' = localUser
            /\ subUpdate' = BuildUpdate(form)
            /\ subFile' = selectedImage
            /\ pcSubmit' = IF selectedImage # NoFile THEN "uploadImage" ELSE "updateUser"
    /\ UNCHANGED <<mounted, page, currentUser, localUser, isEditing, selectedImage,
                   tempImageURL, form, urlVars, otherVars, items>>

\* handleSubmit(onSubmit): the resolver runs first; onSubmit runs up to its
\* first await only when the resolver reports no error
HandleSubmit ==
    /\ Rendered /\ isEditing /\ ~isUploading
    /\ errors' = profileFormSchema(form)
    /\ IF profileFormSchema(form) # {} \/ ~Truthy(localUser._id)
       THEN UNCHANGED <<isUploading, submitVars>>
       ELSE /\ isUploading' = TRUE
            /\ subUser' = localUser
            /\ subUpdate' = BuildUpdate(form)
            /\ subFile' = selectedImage
            /\ pcSubmit' = IF selectedImage # NoFile THEN "uploadImage" ELSE "updateUser"
    /\ UNCHANGED <<mounted, page, currentUser, localUser, isEditing, selectedImage,
                   tempImageURL, form, urlVars, otherVars, items>>

\* userService.uploadImage resolves with { url }
UploadOk(url) ==
    /\ page = "profile" /\ pcSubmit = "uploadImage"
    /\ subUpdate' = subUpdate @@ ("imgURL" :> url)
    /\ pcSubmit' = "updateUser"
    /\ UNCHANGED <<mounted, page, currentUser, compVars, formVars, urlVars,
                   subUser, subFile, otherVars, items>>

\* userService.uploadImage rejects: catch, finally
UploadFail ==
    /\ page = "profile" /\ pcSubmit = "uploadImage"
    /\ SubmitFinally
    /\ UNCHANGED <<mounted, page, currentUser, localUser, isEditing, selectedImage,
                   tempImageURL, formVars, urlVars, otherVars, items>>

\* userService.updateUser resolves (lines 124-135)
UpdateOk ==
    /\ page = "profile" /\ pcSubmit = "updateUser"
    /\ IF mounted
       THEN /\ localUser' = MergeUser(subUser, subUpdate)
            /\ selectedImage' = NoFile
            /\ tempImageURL' = NoURL
            /\ isEditing' = FALSE
       ELSE UNCHANGED <<localUser, selectedImage, tempImageURL, isEditing>>
    /\ pcSubmit' = "updateAuthState"
    /\ UNCHANGED <<mounted, page, currentUser, isUploading, formVars, urlVars,
                   subUser, subFile, subUpdate, otherVars, items>>

\* mutant: the staged image is cleared in the finally block
UpdateFailClearsImage ==
    /\ page = "profile" /\ pcSubmit = "updateUser"
    /\ SubmitFinally
    /\ selectedImage' = NoFile
    /\ tempImageURL' = NoURL
    /\ UNCHANGED <<mounted, page, currentUser, localUser, isEditing,
                   formVars, urlVars, otherVars, items>>

\* mutant: the flag is cleared in the try block only, not in a finally
UpdateFailKeepsFlag ==
    /\ page = "profile" /\ pcSubmit = "updateUser"
    /\ SubmitIdle
    /\ UNCHANGED <<mounted, page, currentUser, compVars, formVars, urlVars,
                   otherVars, items>>

\* userService.updateUser rejects: catch, finally
UpdateFail ==
    /\ page = "profile" /\ pcSubmit = "updateUser"
    /\ SubmitFinally
    /\ UNCHANGED <<mounted, page, currentUser, localUser, isEditing, selectedImage,
                   tempImageURL, formVars, urlVars, otherVars, items>>

\* updateAuthState() resolves: finally
RefreshOk ==
    /\ page = "profile" /\ pcSubmit = "updateAuthState"
    /\ SubmitFinally
    /\ UNCHANGED <<mounted, page, currentUser, localUser, isEditing, selectedImage,
                   tempImageURL, formVars, urlVars, otherVars, items>>

\* updateAuthState() rejects: catch, finally
RefreshFail ==
    /\ page = "profile" /\ pcSubmit = "updateAuthState"
    /\ SubmitFinally
    /\ UNCHANGED <<mounted, page, currentUser, localUser, isEditing, selectedImage,
                   tempImageURL, formVars, urlVars, otherVars, items>>

\* mutant: cancel writes the working copy into the account
HandleCancelEditSaves ==
    /\ Rendered /\ isEditing
    /\ localUser' = [localUser EXCEPT !.email = form.email,
                                      !.userName = form.userName]
    /\ form' = [form EXCEPT !.password = <<>>]
    /\ selectedImage' = NoFile
    /\ tempImageURL' = NoURL
    /\ isEditing' = FALSE
    /\ UNCHANGED <<mounted, page, currentUser, isUploading, errors,
                   urlVars, submitVars, otherVars, items>>

\* mutant: cancel leaves the staged file in place
HandleCancelEditKeepsImage ==
    /\ Rendered /\ isEditing
    /\ form' = [form EXCEPT !.email = localUser.email,
                            !.userName = Or(localUser.userName, <<>>),
                            !.password = <<>>]
    /\ tempImageURL' = NoURL
    /\ isEditing' = FALSE
    /\ UNCHANGED <<mounted, page, currentUser, localUser, isUploading, errors,
                   selectedImage, urlVars, submitVars, otherVars, items>>

\* ------------------------------------------ handleCancelEdit (lines 143-152)
HandleCancelEdit ==
    /\ Rendered /\ isEditing
    /\ form' = [form EXCEPT !.email = localUser.email,
                            !.userName = Or(localUser.userName, <<>>),
                            !.password = <<>>]
    /\ selectedImage' = NoFile
    /\ tempImageURL' = NoURL
    /\ isEditing' = FALSE
    /\ UNCHANGED <<mounted, page, currentUser, localUser, isUploading, errors,
                   urlVars, submitVars, otherVars, items>>

\* mutant: the answer of the confirmation prompt is ignored
HandleDeleteAccountUnconfirmed(confirm) ==
    /\ Rendered /\ ~isEditing
    /\ pcDeleteAccount = "idle" /\ OtherCalls < MaxOtherCalls
    /\ IF Truthy(localUser._id)
       THEN /\ pcDeleteAccount' = "deleteUser"
            /\ delUserId' = localUser._id
       ELSE UNCHANGED <<pcDeleteAccount, delUserId>>
    /\ UNCHANGED <<mounted, page, currentUser, compVars, formVars, urlVars,
                   submitVars, pcLogout, pcDeleteItem, delItemId, items>>

\* --------------------------------------- handleDeleteAccount (lines 154-166)
HandleDeleteAccount(confirm) ==
    /\ Rendered /\ ~isEditing
    /\ pcDeleteAccount = "idle" /\ OtherCalls < MaxOtherCalls
    /\ IF Truthy(localUser._id) /\ confirm
       THEN /\ pcDeleteAccount' = "deleteUser"
            /\ delUserId' = localUser._id
       ELSE UNCHANGED <<pcDeleteAccount, delUserId>>
    /\ UNCHANGED <<mounted, page, currentUser, compVars, formVars, urlVars,
                   submitVars, pcLogout, pcDeleteItem, delItemId, items>>

\* deleteUser resolves: window.location.href = "/login"
DeleteAccountOk ==
    /\ page = "profile" /\ pcDeleteAccount = "deleteUser"
    /\ DocumentGone("login")

\* deleteUser rejects: the catch block logs
DeleteAccountFail ==
    /\ page = "profile" /\ pcDeleteAccount = "deleteUser"
    /\ pcDeleteAccount' = "idle"
    /\ delUserId' = IdUndef
    /\ UNCHANGED <<mounted, page, currentUser, compVars, formVars, urlVars,
                   submitVars, pcLogout, pcDeleteItem, delItemId, items>>

\* ---------------------------------------------- handleLogout (lines 168-175)
HandleLogout ==
    /\ Rendered /\ ~isEditing
    /\ pcLogout = "idle" /\ OtherCalls < MaxOtherCalls
    /\ pcLogout' = "logout"
    /\ UNCHANGED <<mounted, page, currentUser, compVars, formVars, urlVars,
                   submitVars, pcDeleteAccount, delUserId, pcDeleteItem,
                   delItemId, items>>

LogoutOk ==
    /\ page = "profile" /\ pcLogout = "logout"
    /\ DocumentGone("login")

LogoutFail ==
    /\ page = "profile" /\ pcLogout = "logout"
    /\ pcLogout' = "idle"
    /\ UNCHANGED <<mounted, page, currentUser, compVars, formVars, urlVars,
                   submitVars, pcDeleteAccount, delUserId, pcDeleteItem,
                   delItemId, items>>

\* ------------------------------------------ handleDeleteItem (lines 177-187)
HandleDeleteItem(itemId, confirm) ==
    /\ Rendered
    /\ pcDeleteItem = "idle" /\ OtherCalls < MaxOtherCalls
    /\ IF confirm
       THEN /\ pcDeleteItem' = "deleteItem"
            /\ delItemId' = itemId
       ELSE UNCHANGED <<pcDeleteItem, delItemId>>
    /\ UNCHANGED <<mounted, page, currentUser, compVars, formVars, urlVars,
                   submitVars, pcDeleteAccount, delUserId, pcLogout, items>>

\* deleteItem resolves: window.location.reload()
DeleteItemOk ==
    /\ page = "profile" /\ pcDeleteItem = "deleteItem"
    /\ DocumentGone("reload")

DeleteItemFail ==
    /\ page = "profile" /\ pcDeleteItem = "deleteItem"
    /\ pcDeleteItem' = "idle"
    /\ delItemId' = "none"
    /\ UNCHANGED <<mounted, page, currentUser, compVars, formVars, urlVars,
                   submitVars, pcDeleteAccount, delUserId, pcLogout, items>>

\* --------------------------------------------- the item list (lines 55-56)
\* currentUser?._id
CurrentUserId == IF currentUser = NoUser THEN IdUndef ELSE currentUser._id

\* the list renderUserItems(typeParam) renders
renderUserItems(typeParam) == FilterItems(items, CurrentUserId, typeParam)

\* the items the item service can hold
ItemUniverse ==
    {Item("i", o, u, ty) :
        o \in {Id1, IdNum1, Id2, IdEmpty, IdZero, IdUndef},
        u \in {IdUndef, Id1},
        ty \in {TypeLostCap, TypeFound, Undef}}

\* useUserItems delivers a list with one more item
ItemFetched(it) ==
    /\ mounted /\ page = "profile"
    /\ Len(items) < MaxItems
    /\ items' = Append(items, it)
    /\ UNCHANGED <<mounted, page, currentUser, compVars, formVars, urlVars,
                   submitVars, otherVars>>

\* ------------------------------------------------------ the specification
\* the files the user picks (the picker is not left empty again)
PickerChoices == Files

ItemIds == {items[i]._id : i \in 1..Len(items)}

Next ==
    \/ \E u \in AuthUsers : CurrentUserEffect(u)
    \/ StagingEffect
    \/ Unmount
    \/ EnterEdit
    \/ \E v \in Emails : SetField("email", v)
    \/ \E v \in Names : SetField("userName", v)
    \/ \E v \in Passwords : SetField("password", v)
    \/ \E f \in PickerChoices : SelectFile(f)
    \/ HandleSubmit
    \/ \E url \in UploadUrls : UploadOk(url)
    \/ UploadFail
    \/ UpdateOk
    \/ UpdateFail
    \/ RefreshOk
    \/ RefreshFail
    \/ HandleCancelEdit
    \/ \E c \in BOOLEAN : HandleDeleteAccount(c)
    \/ DeleteAccountOk
    \/ DeleteAccountFail
    \/ HandleLogout
    \/ LogoutOk
    \/ LogoutFail

Spec == Init /\ [][Next]_vars

\* ===================================================================
\* Properties
\* ===================================================================
Released == Range(revoked)

Staged == selectedImage # NoFile \/ tempImageURL # NoURL

EffectsSettled == effDeps = <<form.profileImage, tempImageURL>>

\* C1: once the edit session has ended (cancel, successful submit or
\* unmount) and the effects have settled, every preview handle created
\* with URL.createObjectURL has been released with URL.revokeObjectURL.
C1_HandleBalance ==
    (page = "profile" /\ (~mounted \/ (Rendered /\ ~isEditing /\ EffectsSettled)))
        => Released = 1..created

\* C2: cancel() in Editing with a staged image leaves Viewing with
\* selectedImage and the preview URL empty, and they stay empty as long as
\* the user has not selected another file: the staging effect, which has
\* already seen the file the form field holds, does not stage it again.
C2_CancelDiscardsStagedImage ==
    [][ /\ (HandleCancelEdit /\ Staged) => (~isEditing' /\ ~Staged')
        /\ (~Staged /\ effDeps[1] = form.profileImage) => ~Staged'
      ]_vars

\* C3: the field edits and image selections of an edit session and the
\* cancel() that ends it leave the in-memory account as it was at
\* enterEdit(), and cancel() issues no collaborator call: a step that
\* changes the account, a call in flight or the page is none of them.
C3_CancelKeepsAccount ==
    [][ \/ /\ localUser' = localUser
           /\ InFlight' = InFlight
           /\ UNCHANGED <<submitVars, otherVars, page>>
        \/ ~(\/ EnterEdit
             \/ \E v \in Emails : SetField("email", v)
             \/ \E v \in Names : SetField("userName", v)
             \/ \E v \in Passwords : SetField("password", v)
             \/ \E f \in PickerChoices : SelectFile(f)
             \/ HandleCancelEdit)
      ]_vars

\* a cancel has ended an edit session in which a file was selected and
\* fields were edited; the account is the one the session started from
C3_Witness ==
    /\ Rendered /\ ~isEditing /\ ~Staged
    /\ form.profileImage # NoFile
    /\ localUser = UserA /\ form.email = EmailA /\ form.password = <<>>
    /\ InFlight = {}
    /\ created > 0

\* what the specification says the validator accepts
SpecAccepts(data) ==
    /\ IsEmail(data.email)
    /\ Len(data.userName) >= 3
    /\ (data.password = <<>> \/ Len(data.password) >= 8)

\* C4: a submit passes validation iff the email is valid, userName has at
\* least 3 characters and password is empty or has at least 8; an accepted
\* input proceeds to the collaborator calls.
C4_ValidatorAccepts ==
    [][ HandleSubmit =>
          /\ (errors' = {}) <=> SpecAccepts(form)
          /\ (SpecAccepts(form) /\ Truthy(localUser._id)) => pcSubmit' # "idle"
      ]_vars

\* C5: a submit with valid email e', valid userName n', an empty password
\* and no staged image issues the update {email: e', userName: n'}, whose
\* success leaves the account with e', n' and its old avatar.
C5_MergeLaw ==
    [][ (/\ HandleSubmit
         /\ IsEmail(form.email) /\ Len(form.userName) >= 3
         /\ form.password = <<>>
         /\ selectedImage = NoFile
         /\ Truthy(localUser._id))
        => /\ pcSubmit' = "updateUser"
           /\ subUpdate' = [k \in {"email", "userName"} |-> form[k]]
           /\ MergeUser(subUser', subUpdate') =
                 [localUser EXCEPT !.email = form.email, !.userName = form.userName]
      ]_vars

\* C6: a submit whose input fails validation reports an error for each
\* offending field and only for those, stays in Editing, leaves the account
\* and the staged image unchanged, sets no in-flight flag and issues no
\* collaborator call.
C6_InvalidSubmitIsLocal ==
    [][ (/\ HandleSubmit
         /\ (~IsEmail(form.email) \/ Len(form.userName) < 3 \/ Len(form.password) < 8))
        => /\ ("email" \in errors') <=> ~IsEmail(form.email)
           /\ ("userName" \in errors') <=> Len(form.userName) < 3
           /\ ("password" \in errors') <=> Len(form.password) < 8
           /\ isEditing' /\ ~isUploading'
           /\ UNCHANGED <<localUser, selectedImage, tempImageURL, form>>
           /\ InFlight' = InFlight
           /\ UNCHANGED <<submitVars, otherVars>>
      ]_vars

\* a submit of userName "ab" has failed: the error names userName, the
\* controller is in Editing and nothing is in flight
C6_Witness ==
    /\ Rendered /\ isEditing /\ ~isUploading
    /\ form.userName = NameAb /\ form.password = PwNew
    /\ errors = {"userName"}
    /\ selectedImage # NoFile
    /\ InFlight = {}

\* the partial update the specification asks for
ExpectedUpdate(data) ==
    [k \in {"email", "userName"}
           \cup (IF Len(data.password) >= 8 THEN {"password"} ELSE {})
        |-> data[k]]

\* C7: the partial update passed to updateUser holds exactly email and
\* userName, password iff the submitted password has at least 8 characters,
\* and imgURL iff an image was staged and uploaded, equal to the URL the
\* upload returned.
C7_PartialUpdate ==
    [][ /\ (HandleSubmit /\ pcSubmit' # "idle") =>
              /\ subUpdate' = ExpectedUpdate(form)
              /\ (pcSubmit' = "updateUser") <=> (selectedImage = NoFile)
              /\ subFile' = selectedImage
        /\ \A url \in UploadUrls : UploadOk(url) =>
              /\ pcSubmit' = "updateUser"
              /\ subFile # NoFile
              /\ subUpdate' = subUpdate @@ ("imgURL" :> url)
        /\ (pcSubmit = "updateUser" /\ pcSubmit' = "updateUser") =>
              subUpdate' = subUpdate
      ]_vars

\* password "newpass1" and no staged image: the update in flight is exactly
\* {email, userName, password}
C7_Witness ==
    /\ pcSubmit = "updateUser"
    /\ subFile = NoFile
    /\ DOMAIN subUpdate = {"email", "userName", "password"}
    /\ subUpdate.password = PwNew

\* C8: a failed upload issues no updateUser call, and a failed upload or
\* update leaves the mode, the account and the staged image as they were.
C8_FailedSubmitChangesNothing ==
    [][ (UploadFail \/ UpdateFail)
        => /\ pcSubmit' = "idle"
           /\ UNCHANGED <<localUser, isEditing, selectedImage, tempImageURL, form>>
           /\ ((isEditing /\ Staged) => (isEditing' /\ Staged'))
      ]_vars

\* the state a failed submit with a staged image leaves: Editing, the flag
\* cleared, nothing in flight, the image still staged under a preview
\* handle, the working copy as submitted and the account the old one
C8_Witness ==
    /\ Rendered /\ isEditing /\ ~isUploading
    /\ pcSubmit = "idle"
    /\ errors = {} /\ form.password = PwNew /\ form.email = EmailB
    /\ selectedImage # NoFile /\ tempImageURL # NoURL
    /\ form.profileImage = selectedImage
    /\ localUser = UserA /\ currentUser = UserA

\* C11: a submit with a staged image issues uploadImage first and no
\* updateUser; updateUser for a staged image is issued only by the step in
\* which uploadImage resolves, with the returned URL in the update; and
\* uploadImage is never issued once updateUser has been.
C11_UploadBeforeUpdate ==
    [][ /\ (HandleSubmit /\ selectedImage # NoFile /\ pcSubmit' # "idle")
              => (pcSubmit' = "uploadImage" /\ "imgURL" \notin DOMAIN subUpdate')
        /\ (pcSubmit # "updateUser" /\ pcSubmit' = "updateUser" /\ subFile' # NoFile)
              => /\ pcSubmit = "uploadImage"
                 /\ "imgURL" \in DOMAIN subUpdate'
                 /\ subUpdate'.imgURL \in UploadUrls
        /\ (pcSubmit' = "uploadImage") => (pcSubmit \in {"idle", "uploadImage"})
      ]_vars

\* the upload of a staged image has resolved and updateUser is in flight
\* with the returned URL in the update
C11_Witness ==
    /\ pcSubmit = "updateUser"
    /\ subFile # NoFile
    /\ "imgURL" \in DOMAIN subUpdate
    /\ subUpdate.imgURL = ImgNew

\* C12: a submit is accepted only when no submit execution is in flight;
\* while one is in flight and the component is mounted the in-flight flag
\* is set, and the execution in flight is not replaced by another.
C12_NoResubmitInFlight ==
    [][ /\ HandleSubmit => pcSubmit = "idle"
        /\ (mounted /\ pcSubmit # "idle") => isUploading
        /\ (pcSubmit # "idle" /\ pcSubmit' # "idle")
              => (subUser' = subUser /\ subFile' = subFile)
      ]_vars

\* a submit is in flight while the form is shown in Editing with a working
\* copy that would pass validation again
C12_Witness ==
    /\ Rendered /\ isEditing /\ isUploading
    /\ pcSubmit = "uploadImage"
    /\ profileFormSchema(form) = {}

\* the only error the rendered tree shows: the invalid-feedback of a field
ErrorShown == errors # {}

\* C13: whenever uploadImage, updateUser, deleteUser, logout or deleteItem
\* fails, the step that handles the failure leaves a user-visible error set.
C13_FailureIsReported ==
    [][ (UploadFail \/ UpdateFail \/ DeleteAccountFail \/ LogoutFail \/ DeleteItemFail)
        => ErrorShown'
      ]_vars

AllowedMime == {"image/jpeg", "image/png"}

\* C14: a file whose MIME type is neither image/jpeg nor image/png is
\* never staged (selectedImage never holds it) and never passed to
\* uploadImage by a submit.
C14_OnlyJpegOrPng ==
    /\ (selectedImage # NoFile => MimeOf(selectedImage) \in AllowedMime)
    /\ (subFile # NoFile => MimeOf(subFile) \in AllowedMime)

\* the controller state the idempotence is about
ControllerState ==
    [isEditing |-> isEditing, form |-> form, selectedImage |-> selectedImage,
     tempImageURL |-> tempImageURL, localUser |-> localUser,
     created |-> created, revoked |-> revoked]

\* the controller state a call of handleCancelEdit in this state leaves
CancelledState ==
    [isEditing |-> FALSE,
     form |-> IF localUser # NoUser
              THEN [form EXCEPT !.email = localUser.email,
                                !.userName = Or(localUser.userName, <<>>),
                                !.password = <<>>]
              ELSE form,
     selectedImage |-> NoFile,
     tempImageURL |-> NoURL,
     localUser |-> localUser,
     created |-> created,
     revoked |-> revoked]

Live == (1..created) \ Released

\* C16: at every reachable state at most one preview handle is live
\* (created and not yet released), so a selection creates one handle and a
\* replaced handle is released before the next becomes current; and no
\* handle is released more than once.
C16_OneLiveHandle ==
    /\ Cardinality(Live) <= 1
    /\ Len(revoked) = Cardinality(Released)

\* C17: when updateUser succeeds the account becomes the merge of the
\* submitted fields, the staged image is cleared and its preview handle
\* released, the controller is in Viewing and the refresh is requested;
\* in Viewing after the success no image is staged again; and the end of
\* the refresh, failed or not, changes neither the mode nor the account.
C17_SuccessSequence ==
    [][ /\ (UpdateOk /\ mounted)
              => /\ localUser' = MergeUser(subUser, subUpdate)
                 /\ ~isEditing' /\ ~Staged'
                 /\ pcSubmit' = "updateAuthState"
                 /\ ((subFile # NoFile /\ tempImageURL # NoURL)
                       => tempImageURL \in Range(revoked'))
        /\ (pcSubmit = "updateAuthState" /\ ~isEditing /\ ~Staged
              /\ effDeps[1] = form.profileImage)
              => ~Staged'
        /\ (RefreshOk \/ RefreshFail) => UNCHANGED <<isEditing, localUser>>
      ]_vars

\* C18: immediately after enterEdit() the working copy's email and
\* userName are those of the account (an absent userName reads as empty)
\* and its password is empty.
C18_EnterEditSeeds ==
    [][ EnterEdit
        => /\ form'.email = localUser'.email
           /\ form'.userName = Or(localUser'.userName, <<>>)
           /\ form'.password = <<>>
      ]_vars

\* C19: a step taken while a submit is in flight that is not a step of
\* the submit changes neither the mode, the working copy nor the account;
\* and updateUser completes in Editing, on the account the submit started
\* from.
C19_SingleActiveAction ==
    [][ /\ (pcSubmit # "idle" /\ pcSubmit' = pcSubmit)
              => UNCHANGED <<isEditing, form, localUser>>
        /\ (UpdateOk /\ mounted) => (isEditing /\ localUser = subUser)
      ]_vars

\* every collaborator call of onSubmit eventually resolves or rejects
SubmitCallsReturn ==
    /\ WF_vars((\E url \in UploadUrls : UploadOk(url)) \/ UploadFail)
    /\ WF_vars(UpdateOk \/ UpdateFail)
    /\ WF_vars(RefreshOk \/ RefreshFail)

SpecLive == Init /\ [][Next]_vars /\ SubmitCallsReturn

\* C20: the in-flight flag is set only while a submit execution is in
\* progress, and whenever it is set it is eventually cleared.
C20_FlagEventuallyCleared ==
    /\ [](isUploading => pcSubmit # "idle")
    /\ (isUploading ~> ~isUploading)

\* a submit has set the flag and gone through upload and update: the flag
\* is still set while the refresh, its last call, is pending
C20_Witness ==
    /\ mounted /\ isUploading
    /\ pcSubmit = "updateAuthState"
    /\ subFile # NoFile
    /\ localUser.password = PwNew

\* C10: a declined confirmation issues no delete-item or delete-user call,
\* leaves the item list and the account unchanged and neither navigates nor
\* reloads.
C10_DeclineHasNoEffect ==
    [][ (\/ HandleDeleteAccount(FALSE)
         \/ \E id \in ItemIds : HandleDeleteItem(id, FALSE))
        => /\ InFlight' = InFlight
           /\ UNCHANGED <<otherVars, submitVars, items, localUser, currentUser,
                          page, mounted>>
      ]_vars

\* the profile is shown in Viewing for an account with an id and with an
\* item of its own: either prompt can be answered, and after a declined
\* prompt no call is in flight and the page is still the profile
C10_Witness ==
    /\ Rendered /\ ~isEditing
    /\ Truthy(localUser._id)
    /\ renderUserItems(<<"l", "o", "s", "t">>) # <<>>
    /\ InFlight = {}
    /\ page = "profile"

\* the profile of a signed-in user, before any item has arrived
InitItems ==
    /\ mounted = TRUE
    /\ page = "profile"
    /\ currentUser \in AuthUsers
    /\ localUser = currentUser
    /\ isEditing = FALSE
    /\ isUploading = FALSE
    /\ selectedImage = NoFile
    /\ tempImageURL = NoURL
    /\ form = [DefaultValues EXCEPT !.email = currentUser.email,
                                    !.userName = Or(currentUser.userName, <<>>)]
    /\ errors = {}
    /\ effDeps = <<NoFile, NoURL>>
    /\ created = 0
    /\ revoked = <<>>
    /\ InitCalls
    /\ items = <<>>

\* The item list of the profile: items arrive, are classified for the
\* current user, and are deleted.  handleDeleteItem is invoked here as an
\* operation of the component: no element of the rendered tree calls it.
NextItems ==
    \/ \E it \in ItemUniverse : ItemFetched(it)
    \/ \E u \in AuthUsers : CurrentUserEffect(u)
    \/ \E id \in ItemIds : \E c \in BOOLEAN : HandleDeleteItem(id, c)
    \/ DeleteItemOk
    \/ DeleteItemFail
    \/ \E c \in BOOLEAN : HandleDeleteAccount(c)
    \/ DeleteAccountOk
    \/ DeleteAccountFail

SpecItems == InitItems /\ [][NextItems]_vars

TypeParams == {<<"l", "o", "s", "t">>, <<"f", "o", "u", "n", "d">>}

\* the owner as the statement reads it: userId only when owner is absent
StatedOwner(it) == IF it.owner.t = "undef" THEN it.userId ELSE it.owner

\* (an absent identifier is taken to equal nothing)
StatedKeep(it, uid, typeParam) ==
    /\ StatedOwner(it).t # "undef" /\ uid.t # "undef"
    /\ StringOf(StatedOwner(it)) = StringOf(uid)
    /\ Trim(ToLowerCase(Or(it.itemType, <<>>))) = typeParam

\* an identifier that is neither absent nor an empty string nor 0
Present(v) == v.t # "undef" /\ v.t # "null" /\ v.s # <<>> /\ v # IdZero

\* the owner as the code reads it: userId when owner is not present
AmendedKeep(it, uid, typeParam) ==
    LET o == IF Present(it.owner) THEN it.owner ELSE it.userId
    IN  /\ Present(o) /\ Present(uid)
        /\ StringOf(o) = StringOf(uid)
        /\ Trim(ToLowerCase(Or(it.itemType, <<>>))) = typeParam

\* C9 as stated: each list holds, in input order, exactly the items whose
\* String(owner, or userId when owner is absent) equals
\* String(currentUserId) and whose trimmed lower-cased itemType is typeParam.
C9_ClassifyAsStated ==
    \A ty \in TypeParams :
        renderUserItems(ty) =
            SelectSeq(items, LAMBDA it : StatedKeep(it, CurrentUserId, ty))

\* C9 amended: each list holds, in input order, exactly the items whose
\* owner (userId when owner is absent, empty or 0) is present, with the
\* current user id present, equal as strings to the current user id, and
\* whose trimmed lower-cased itemType is typeParam; no item is in both
\* lists and no item of another owner is in either.
C9_Classify ==
    /\ \A ty \in TypeParams :
          renderUserItems(ty) =
              SelectSeq(items, LAMBDA it : AmendedKeep(it, CurrentUserId, ty))
    /\ Range(renderUserItems(<<"l", "o", "s", "t">>))
          \cap Range(renderUserItems(<<"f", "o", "u", "n", "d">>)) = {}
    /\ \A ty \in TypeParams : \A it \in Range(renderUserItems(ty)) :
          StringOf(OrId(it.owner, it.userId)) = StringOf(CurrentUserId)

\* the item {owner: "1", itemType: "Lost "} of current user "1" is in the
\* lost list and not in the found list, behind an item of another owner
C9_Witness ==
    /\ Len(items) = 2
    /\ items[1].owner = Id2
    /\ items[2] = Item("i", Id1, IdUndef, TypeLostCap)
    /\ CurrentUserId = Id1
    /\ renderUserItems(<<"l", "o", "s", "t">>) = <<items[2]>>
    /\ renderUserItems(<<"f", "o", "u", "n", "d">>) = <<>>

====
